---------------------------- MODULE Spec2Model ----------------------------
(***************************************************************************)
(* Model of the checkout simulator (simulate_checkouts.py): the outcome    *)
(* distribution builder, the dart-by-dart evaluation of a candidate        *)
(* sequence, the weighting and ranking of the candidates of one            *)
(* (bin, total) unit, and the safety score.                                *)
(*                                                                         *)
(* Target codes are sequences of one-character strings ("d16" is           *)
(* <<"d","1","6">>), so that the code's parsing (startswith, int(bed[1:]), *)
(* isdigit, lower) is modelled by what it does.  Python floats are         *)
(* modelled as exact rationals [n, d] in lowest terms.                     *)
(***************************************************************************)
EXTENDS Integers, Sequences, FiniteSets, TLC

(***************************************************************************)
(* Exact rational arithmetic standing for the float operations.            *)
(***************************************************************************)
RECURSIVE Gcd(_, _)
Gcd(a, b) == IF b = 0 THEN a ELSE Gcd(b, a % b)

Abs(x) == IF x < 0 THEN -x ELSE x

Rat(n, d) ==
    LET g == Gcd(Abs(n), d) IN [n |-> n \div g, d |-> d \div g]

Zero == Rat(0, 1)
One == Rat(1, 1)

RAdd(a, b) ==
    LET g == Gcd(a.d, b.d)
    IN  Rat(a.n * (b.d \div g) + b.n * (a.d \div g), (a.d \div g) * b.d)

RSub(a, b) == RAdd(a, [n |-> -b.n, d |-> b.d])

RMul(a, b) ==
    LET g1 == Gcd(Abs(a.n), b.d)
        g2 == Gcd(Abs(b.n), a.d)
    IN  IF a.n = 0 \/ b.n = 0 THEN Zero
        ELSE Rat((a.n \div g1) * (b.n \div g2), (a.d \div g2) * (b.d \div g1))

RDiv(a, b) ==
    IF b.n < 0 THEN RMul(a, [n |-> -b.d, d |-> -b.n])
    ELSE RMul(a, [n |-> b.d, d |-> b.n])

RLt(a, b) ==
    IF a.d = b.d THEN a.n < b.n
    ELSE LET g == Gcd(a.d, b.d) IN a.n * (b.d \div g) < b.n * (a.d \div g)

RLe(a, b) == ~RLt(b, a)

RMin(a, b) == IF RLt(b, a) THEN b ELSE a
RMax(a, b) == IF RLt(a, b) THEN b ELSE a

(***************************************************************************)
(* Strings as sequences of characters.                                     *)
(***************************************************************************)
Digits == {"0", "1", "2", "3", "4", "5", "6", "7", "8", "9"}

DigitVal(c) ==
    CASE c = "0" -> 0 [] c = "1" -> 1 [] c = "2" -> 2 [] c = "3" -> 3
      [] c = "4" -> 4 [] c = "5" -> 5 [] c = "6" -> 6 [] c = "7" -> 7
      [] c = "8" -> 8 [] c = "9" -> 9

DigitChar(k) ==
    CASE k = 0 -> "0" [] k = 1 -> "1" [] k = 2 -> "2" [] k = 3 -> "3"
      [] k = 4 -> "4" [] k = 5 -> "5" [] k = 6 -> "6" [] k = 7 -> "7"
      [] k = 8 -> "8" [] k = 9 -> "9"

\* str.lower() on the characters the model uses
LowerChar(c) ==
    CASE c = "T" -> "t" [] c = "D" -> "d" [] c = "I" -> "i" [] c = "O" -> "o"
      [] c = "S" -> "s" [] c = "B" -> "b" [] c = "U" -> "u" [] c = "L" -> "l"
      [] OTHER -> c

Lower(s) == [k \in 1..Len(s) |-> LowerChar(s[k])]

\* str.isdigit(): non-empty and every character a digit
IsDigitStr(s) == Len(s) > 0 /\ \A k \in 1..Len(s) : s[k] \in Digits

\* int(s) for a string of digits
RECURSIVE IntOf(_)
IntOf(s) ==
    IF Len(s) = 0 THEN 0
    ELSE 10 * IntOf(SubSeq(s, 1, Len(s) - 1)) + DigitVal(s[Len(s)])

\* str(n) for n >= 0, the f-string formatting of a segment number
RECURSIVE StrOf(_)
StrOf(n) ==
    IF n < 10 THEN <<DigitChar(n)>>
    ELSE StrOf(n \div 10) \o <<DigitChar(n % 10)>>

StartsWith(s, c) == Len(s) > 0 /\ s[1] = c

IBULL == <<"i", "b", "u", "l", "l">>
OBULL == <<"o", "b", "u", "l", "l">>

\* f'{kind}{n}'
Code(kind, n) == <<kind>> \o StrOf(n)

(***************************************************************************)
(* Configuration (simulate_checkouts.py lines 10-18).                      *)
(***************************************************************************)
BIN_START == 30
BIN_END == 110
BIN_WIDTH == 10
MIN_EMPIRICAL_SAMPLES == 10

BOARD_ORDER ==
    <<20, 1, 18, 4, 13, 6, 10, 15, 2, 17, 3, 19, 7, 16, 8, 11, 14, 9, 12, 5>>
NUM_SEGMENTS == Len(BOARD_ORDER)

\* segment_index = {n: i for i, n in enumerate(BOARD_ORDER)}, 0-based positions
InSegmentIndex(n) == \E k \in 1..NUM_SEGMENTS : BOARD_ORDER[k] = n
segment_index(n) == (CHOOSE k \in 1..NUM_SEGMENTS : BOARD_ORDER[k] = n) - 1

\* BOARD_ORDER[(idx - 1) % NUM_SEGMENTS] and BOARD_ORDER[(idx + 1) % NUM_SEGMENTS]
LeftOf(n) == BOARD_ORDER[((segment_index(n) - 1) % NUM_SEGMENTS) + 1]
RightOf(n) == BOARD_ORDER[((segment_index(n) + 1) % NUM_SEGMENTS) + 1]

(***************************************************************************)
(* score_of and is_double (lines 21-63).                                   *)
(***************************************************************************)
\* the try: int(..) except: return 0 of score_of
IntOrZero(s, factor) == IF IsDigitStr(s) THEN factor * IntOf(s) ELSE 0

score_of(bed0) ==
    LET bed == Lower(bed0)
    IN  IF bed = IBULL THEN 50
        ELSE IF bed = OBULL THEN 25
        ELSE IF StartsWith(bed, "t") THEN IntOrZero(Tail(bed), 3)
        ELSE IF StartsWith(bed, "d") THEN IntOrZero(Tail(bed), 2)
        ELSE IF StartsWith(bed, "i") \/ StartsWith(bed, "o")
             THEN IntOrZero(Tail(bed), 1)
        ELSE IF StartsWith(bed, "s") THEN IntOrZero(Tail(bed), 1)
        ELSE IF bed[1] \in Digits THEN IntOrZero(bed, 1)
        ELSE 0

is_double_mut(bed0) ==
    LET bed == Lower(bed0)
    IN  IF bed = IBULL THEN TRUE
        ELSE IF bed = OBULL THEN TRUE
        ELSE StartsWith(bed, "d")

is_double(bed0) ==
    LET bed == Lower(bed0)
    IN  IF bed = IBULL THEN TRUE
        ELSE IF bed = OBULL THEN FALSE
        ELSE StartsWith(bed, "d")


(***************************************************************************)
(* State.  The lookup tables are built once, before the results loop; the  *)
(* remaining variables are the position of the results loop inside one     *)
(* (bin, total) unit and of compute_success_prob_for_seq_given_T inside    *)
(* one candidate sequence.                                                 *)
(***************************************************************************)
VARIABLES
    aim_empirical,      \* aimed code -> (landed bed -> number of rows)
    aim_counts,         \* aimed code -> number of rows
    per_file_records,   \* per file: average, rows aimed at t20, hits of t20
    slope, intercept,   \* the weighted linear fit, or None
    mult_double, mult_single,
    bin_distributions,  \* bin label -> (aimed code -> distribution)
    candidates,         \* str(T) -> list of raw candidate items
    bin,                \* the (label, rep) of the unit being processed
    T,                  \* the total of the unit being processed
    model_seqs,         \* the parsed candidate sequences of the unit
    ci,                 \* index of the candidate being evaluated
    seq,                \* the candidate being evaluated
    di,                 \* index of the dart being evaluated
    states,             \* remaining score -> probability
    success,            \* accumulated success probability
    scored,             \* the eligible candidates evaluated so far
    results,            \* the published entry of the unit
    safety,             \* the value returned by the last calculate_safety_score call
    call,               \* the call under study of a function outside the results loop
    ret,                \* the value that call returned
    pc

tables ==
    <<aim_empirical, aim_counts, per_file_records, slope, intercept, mult_double,
      mult_single, bin_distributions, candidates>>
unit == <<bin, T, model_seqs>>
calls == <<call, ret>>
vars ==
    <<aim_empirical, aim_counts, per_file_records, slope, intercept, mult_double,
      mult_single, bin_distributions, candidates, bin, T, model_seqs, ci, seq, di, states,
      success, scored, results, safety, call, ret, pc>>

\* Python's None for a float-valued name: a record no rational equals
None == [n |-> 0, d |-> 0]
IsNone(x) == x.d = 0
\* Python's None for target_num
NoNum == -1

\* sum of a numeric function over its domain
RECURSIVE SumInt(_, _)
SumInt(f, S) ==
    IF S = {} THEN 0
    ELSE LET x == CHOOSE y \in S : TRUE IN f[x] + SumInt(f, S \ {x})

RECURSIVE SumRat(_, _)
SumRat(f, S) ==
    IF S = {} THEN Zero
    ELSE LET x == CHOOSE y \in S : TRUE IN RAdd(f[x], SumRat(f, S \ {x}))

\* dict.get(key, 0)
GetInt(f, k) == IF k \in DOMAIN f THEN f[k] ELSE 0
GetRat(f, k) == IF k \in DOMAIN f THEN f[k] ELSE Zero

(***************************************************************************)
(* Type multipliers (lines 126-149).                                       *)
(***************************************************************************)
avg_hit_rate_for_type(emp, prefixes) ==
    LET aims == {a \in DOMAIN emp : \E p \in prefixes : StartsWith(a, p)}
        total_aims == SumInt([a \in aims |-> SumInt(emp[a], DOMAIN emp[a])], aims)
        total_hits == SumInt([a \in aims |-> GetInt(emp[a], a)], aims)
    IN  IF total_aims > 0 THEN Rat(total_hits, total_aims) ELSE None

\* truthiness of a float-or-None
Truthy(x) == ~IsNone(x) /\ x.n # 0

T20 == <<"t", "2", "0">>

avg_t20_of(emp) ==
    IF T20 \in DOMAIN emp /\ SumInt(emp[T20], DOMAIN emp[T20]) > 0
    THEN Rat(GetInt(emp[T20], T20), SumInt(emp[T20], DOMAIN emp[T20]))
    ELSE None

base_treble_rate_of(emp) ==
    IF Truthy(avg_t20_of(emp)) THEN avg_t20_of(emp)
    ELSE avg_hit_rate_for_type(emp, {"t"})

mult_treble == One

mult_double_of(emp) ==
    LET avg_double == avg_hit_rate_for_type(emp, {"d"})
        base == base_treble_rate_of(emp)
    IN  IF Truthy(avg_double) /\ Truthy(base) THEN RDiv(avg_double, base)
        ELSE Rat(6, 10)

mult_single_of(emp) ==
    LET avg_single == avg_hit_rate_for_type(emp, {"o", "i"})
        base == base_treble_rate_of(emp)
    IN  IF Truthy(avg_single) /\ Truthy(base) THEN RDiv(avg_single, base)
        ELSE Rat(9, 10)

(***************************************************************************)
(* Aim targets (lines 151-162).                                            *)
(***************************************************************************)
all_aims ==
    {Code(k, n) : k \in {"t", "d", "o", "i"}, n \in 1..20} \cup {OBULL, IBULL}

prioritised_aims ==
    {Code("t", n) : n \in 12..20} \cup {Code("o", n) : n \in 14..20}
        \cup {Code("i", n) : n \in 14..20}

(***************************************************************************)
(* build_distribution_for_aim (lines 168-215).                             *)
(***************************************************************************)
target_num_of(aimed) ==
    IF aimed \in {OBULL, IBULL} THEN 25
    ELSE IF Len(aimed) > 1 /\ IsDigitStr(Tail(aimed)) THEN IntOf(Tail(aimed))
    ELSE NoNum

typ_of(aimed) ==
    IF aimed \in {OBULL, IBULL} THEN (IF aimed = IBULL THEN "i" ELSE "o")
    ELSE aimed[1]

\* lines 184-185
p_hit_t20_of_mut(avg) ==
    LET raw_t20 == IF ~IsNone(slope) THEN RSub(intercept, RMul(slope, avg))
                   ELSE Rat(2, 10)
    IN  RMax(Zero, RMin(One, raw_t20))

p_hit_t20_of(avg) ==
    LET raw_t20 == IF ~IsNone(slope) THEN RAdd(RMul(slope, avg), intercept)
                   ELSE Rat(2, 10)
    IN  RMax(Zero, RMin(One, raw_t20))

\* line 194
clamp_hit_mut(p) == p

clamp_hit(p) == RMax(Zero, RMin(Rat(99, 100), p))

\* lines 184-194
p_hit_of(aimed, avg) ==
    LET p_hit_t20 == p_hit_t20_of(avg)
        mult == IF typ_of(aimed) = "t" THEN mult_treble
                ELSE IF typ_of(aimed) = "d" THEN mult_double
                ELSE mult_single
    IN  clamp_hit(RMul(p_hit_t20, mult))

\* lines 200-211
choices_of(aimed) ==
    LET target_num == target_num_of(aimed)
        neighbors == IF target_num # NoNum /\ InSegmentIndex(target_num)
                     THEN {Code("i", LeftOf(target_num)), Code("i", RightOf(target_num))}
                     ELSE {}
        same_num == IF target_num # NoNum
                    THEN {Code("i", target_num), Code("d", target_num)}
                    ELSE {}
    IN  IF neighbors \cup same_num = {} THEN {Code("o", 20)}
        ELSE neighbors \cup same_num

fallback_distribution(aimed, avg) ==
    LET p_hit == p_hit_of(aimed, avg)
        rem == RSub(One, p_hit)
        choices == choices_of(aimed)
        per == RDiv(rem, Rat(Cardinality(choices), 1))
    IN  [bed \in {aimed} \cup choices |->
            IF bed \in choices
            THEN RAdd(IF bed = aimed THEN p_hit ELSE Zero, per)
            ELSE p_hit]

\* line 172
uses_empirical_mut(total) == total > MIN_EMPIRICAL_SAMPLES

uses_empirical(total) == total >= MIN_EMPIRICAL_SAMPLES

build_distribution_for_aim(aimed0, avg) ==
    LET aimed == Lower(aimed0)
        total == GetInt(aim_counts, aimed)
    IN  IF uses_empirical(total)
        THEN [bed \in DOMAIN aim_empirical[aimed] |->
                 Rat(aim_empirical[aimed][bed], total)]
        ELSE fallback_distribution(aimed, avg)

(***************************************************************************)
(* Bins (lines 217-227).  A label is the string f"{low}-{high}", or        *)
(* f"{BIN_END}+" for the top bin.                                          *)
(***************************************************************************)
RECURSIVE bins_from(_)
bins_from(start) ==
    IF start <= BIN_END - BIN_WIDTH
    THEN <<[label |-> StrOf(start) \o <<"-">> \o StrOf(start + BIN_WIDTH - 1),
            rep |-> Rat(start + (start + BIN_WIDTH - 1), 2)]>>
         \o bins_from(start + BIN_WIDTH)
    ELSE <<[label |-> StrOf(BIN_END) \o <<"+">>, rep |-> Rat(2 * BIN_END + BIN_WIDTH, 2)]>>

bins == bins_from(BIN_START)

\* float(bin_label.split('-')[0]) if '-' in bin_label else BIN_END  (line 282)
on_the_fly_avg(bin_label) ==
    IF \E k \in 1..Len(bin_label) : bin_label[k] = "-"
    THEN LET first == CHOOSE k \in 1..Len(bin_label) :
                         /\ bin_label[k] = "-"
                         /\ \A j \in 1..(k - 1) : bin_label[j] # "-"
         IN  Rat(IntOf(SubSeq(bin_label, 1, first - 1)), 1)
    ELSE Rat(BIN_END, 1)

\* lines 230-239
aim_targets_to_consider ==
    {Lower(a) : a \in (DOMAIN aim_empirical) \cup all_aims \cup prioritised_aims}


(***************************************************************************)
(* parse_candidate_sequence (lines 259-268).  A raw item is a JSON list of *)
(* strings, a JSON string, or something else.                              *)
(***************************************************************************)
RECURSIVE LStrip(_)
LStrip(s) == IF Len(s) > 0 /\ s[1] = " " THEN LStrip(Tail(s)) ELSE s

RECURSIVE RStrip(_)
RStrip(s) ==
    IF Len(s) > 0 /\ s[Len(s)] = " " THEN RStrip(SubSeq(s, 1, Len(s) - 1)) ELSE s

Strip(s) == RStrip(LStrip(s))

\* str.split(sep): the pieces between the separators, empty pieces included
RECURSIVE SplitFrom(_, _, _)
SplitFrom(s, sep, cur) ==
    IF Len(s) = 0 THEN <<cur>>
    ELSE IF s[1] = sep THEN <<cur>> \o SplitFrom(Tail(s), sep, <<>>)
    ELSE SplitFrom(Tail(s), sep, Append(cur, s[1]))

Split(s, sep) == SplitFrom(s, sep, <<>>)

NonEmpty(s) == Len(s) > 0

parse_candidate_sequence(item) ==
    IF item.kind = "list"
    THEN [k \in 1..Len(item.v) |-> Lower(Strip(item.v[k]))]
    ELSE IF item.kind = "str"
    THEN LET parts == IF \E k \in 1..Len(item.v) : item.v[k] = "|"
                      THEN Split(item.v, "|")
                      ELSE Split(item.v, ",")
             stripped == [k \in 1..Len(parts) |-> Lower(Strip(parts[k]))]
         IN  SelectSeq(stripped, NonEmpty)
    ELSE <<>>

\* '|'.join(seq)
RECURSIVE Join(_)
Join(s) ==
    IF Len(s) = 0 THEN <<>>
    ELSE IF Len(s) = 1 THEN s[1]
    ELSE s[1] \o <<"|">> \o Join(Tail(s))

(***************************************************************************)
(* compute_success_prob_for_seq_given_T (lines 272-311), one dart of the   *)
(* loop at a time.                                                         *)
(***************************************************************************)
\* lines 280-284
probs_for(aimed) ==
    LET dist_map == bin_distributions[bin.label]
    IN  IF aimed \notin DOMAIN dist_map
        THEN build_distribution_for_aim(aimed, on_the_fly_avg(bin.label))
        ELSE dist_map[aimed]

\* line 290
branch_mass_mut(p_rem, p_actual) == p_actual

branch_mass(p_rem, p_actual) == RMul(p_rem, p_actual)

\* line 292
overshoots_mut(sc, rem) == FALSE

overshoots_ge(sc, rem) == sc >= rem

overshoots(sc, rem) == sc > rem

\* line 303
cannot_finish_mut(new_rem) == FALSE

cannot_finish(new_rem) == new_rem = 1

\* lines 289-307: what happens to the mass of the branch (rem, actual_bed)
Fate(rem, actual_bed) ==
    LET sc == score_of(actual_bed)
        new_rem == rem - sc
    IN  IF overshoots(sc, rem) THEN "bust"
        ELSE IF new_rem = 0
             THEN (IF is_double(actual_bed) THEN "success" ELSE "bust")
        ELSE IF cannot_finish(new_rem) THEN "bust"
        ELSE "carry"

\* lines 285-288: the (rem, actual_bed) pairs the two loops visit
Branches(st, probs) ==
    {b \in (DOMAIN st) \X (DOMAIN probs) : st[b[1]].n > 0}

\* new_states[new_rem] += p on a defaultdict(float)
add_to(d, k, p) ==
    IF k \in DOMAIN d THEN [d EXCEPT ![k] = RAdd(@, p)] ELSE d @@ (k :> p)

\* line 299: success += p
add_success_mut(succ, p) == RSub(succ, p)
add_success(succ, p) == RAdd(succ, p)

\* lines 285-307: the two loops, run over the pairs B still to visit; acc
\* holds success and new_states
RECURSIVE dart_loops(_, _, _, _)
dart_loops(B, st, probs, acc) ==
    IF B = {} THEN acc
    ELSE
      LET b == CHOOSE x \in B : TRUE
          p == branch_mass(st[b[1]], probs[b[2]])
          fate == Fate(b[1], b[2])
      IN  dart_loops(B \ {b}, st, probs,
            IF fate = "success"
            THEN [acc EXCEPT !.success = add_success(@, p)]
            ELSE IF fate = "carry"
            THEN [acc EXCEPT !.new_states = add_to(@, b[1] - score_of(b[2]), p)]
            ELSE acc)

(***************************************************************************)
(* calculate_safety_score (lines 315-353).                                 *)
(***************************************************************************)
\* lines 345-351
RECURSIVE safety_loop(_, _, _)
safety_loop(n, remaining_after_left, remaining_after_right) ==
    IF n > 20 THEN Rat(5, 10)
    ELSE IF 2 * n = remaining_after_left \/ 2 * n = remaining_after_right
         THEN Rat(9, 10)
    ELSE IF remaining_after_left \in {1, 0} \/ remaining_after_right \in {1, 0}
         THEN Rat(3, 10)
    ELSE safety_loop(n + 1, remaining_after_left, remaining_after_right)

\* lines 316-317
calculate_safety_score_mut(sq, total) ==
    IF Len(sq) < 2 THEN Rat(9, 10) ELSE Rat(5, 10)

calculate_safety_score(sq, total) ==
    IF Len(sq) < 2 THEN One
    ELSE
      LET first_aim == Lower(sq[1])
          first_score == score_of(first_aim)
          target_num == IF Len(first_aim) > 1 /\ IsDigitStr(Tail(first_aim))
                        THEN IntOf(Tail(first_aim)) ELSE NoNum
      IN  IF first_score = 0 THEN Rat(5, 10)
          ELSE IF target_num = NoNum \/ ~InSegmentIndex(target_num) THEN Rat(7, 10)
          ELSE
            LET left_score == score_of(Code(first_aim[1], LeftOf(target_num)))
                right_score == score_of(Code(first_aim[1], RightOf(target_num)))
            IN  safety_loop(1, total - left_score, total - right_score)

(***************************************************************************)
(* The results loop for one (bin, total) unit (lines 362-438).             *)
(***************************************************************************)
\* lines 373-378
dart_count_weight(sq) ==
    IF Len(sq) = 1 THEN Rat(13, 10)
    ELSE IF Len(sq) = 2 THEN Rat(11, 10)
    ELSE One

\* lines 381-386
bull_weight(sq) ==
    LET final_aim == IF Len(sq) > 0 THEN Lower(sq[Len(sq)]) ELSE <<>>
    IN  IF final_aim = IBULL THEN Rat(85, 100) ELSE One

\* lines 389-395
lead_weight(sq) ==
    IF Len(sq) = 2
    THEN LET first_aim == Lower(sq[1])
         IN  IF StartsWith(first_aim, "t") \/ StartsWith(first_aim, "d")
             THEN Rat(90, 100) ELSE One
    ELSE One

weighted_mut(sq, prob) == RMul(prob, dart_count_weight(sq))

weighted(sq, prob) ==
    RMul(RMul(RMul(prob, dart_count_weight(sq)), bull_weight(sq)), lead_weight(sq))

\* the sort key of line 409: x before y
sort_before_mut(x, y) == RLt(y.success_prob, x.success_prob)

sort_before(x, y) ==
    \/ RLt(y.success_prob_weighted, x.success_prob_weighted)
    \/ /\ y.success_prob_weighted = x.success_prob_weighted
       /\ RLt(y.safety, x.safety)

\* list.sort is stable: an entry goes before the first entry it sorts before
RECURSIVE insert_sorted(_, _)
insert_sorted(sorted, x) ==
    IF Len(sorted) = 0 THEN <<x>>
    ELSE IF sort_before(x, sorted[1]) THEN <<x>> \o sorted
    ELSE <<sorted[1]>> \o insert_sorted(Tail(sorted), x)

RECURSIVE sort_scored(_)
sort_scored(l) ==
    IF Len(l) = 0 THEN <<>>
    ELSE insert_sorted(sort_scored(SubSeq(l, 1, Len(l) - 1)), l[Len(l)])

\* max(scored, key=lambda x: x['safety']): the first entry of maximal safety
safest_of_mut(l) == l[1]

safest_of(l) ==
    l[CHOOSE k \in 1..Len(l) :
        /\ \A j \in 1..Len(l) : RLe(l[j].safety, l[k].safety)
        /\ \A j \in 1..(k - 1) : RLt(l[j].safety, l[k].safety)]

\* max([s['safety'] for s in scored])
max_safety(l) ==
    CHOOSE v \in {l[k].safety : k \in 1..Len(l)} :
        \A j \in 1..Len(l) : RLe(l[j].safety, v)

\* scored[:5]
Prefix_mut(l, k) == l

Prefix(l, k) == SubSeq(l, 1, IF Len(l) < k THEN Len(l) ELSE k)

top_entry(sc) ==
    [sequence |-> sc.sequence, success_prob |-> sc.success_prob,
     safety |-> sc.safety, is_one_dart |-> sc.is_one_dart]

\* line 413
best_prob_mut(l) == l[1].success_prob_weighted

best_prob(l) == l[1].success_prob

\* lines 412-438
published(l) ==
    IF Len(l) = 0
    THEN [best |-> [sequence |-> <<>>, success_prob |-> Zero, safety |-> Zero],
          safest |-> [sequence |-> <<>>, safety |-> Zero],
          top_5 |-> <<>>]
    ELSE [best |-> [sequence |-> Join(l[1].sequence),
                    success_prob |-> best_prob(l),
                    safety |-> l[1].safety],
          safest |-> [sequence |-> Join(safest_of(l).sequence),
                      safety |-> max_safety(l)],
          top_5 |-> [k \in 1..Len(Prefix(l, 5)) |-> top_entry(l[k])]]


(***************************************************************************)
(* Bounds of the model and the inputs drawn within them.                   *)
(***************************************************************************)
MaxLen == 3         \* longest candidate sequence
MaxT == 4           \* totals 2..MaxT, and 50 for the bull finishes
MaxCands == 2       \* longest candidate list of a total

D1 == <<"d", "1">>
D2 == <<"d", "2">>
T1 == <<"t", "1">>
S1 == <<"s", "1">>
I1 == <<"i", "1">>
I2 == <<"i", "2">>

Totals == {t \in 2..170 : t <= MaxT \/ t = 50}

\* the first bin and the open-ended top bin
BinChoices == {bins[1], bins[Len(bins)]}

NoRows == [b \in {} |-> 0]

\* the rows of the historical files, per aimed code: none, or counts per bed
RowChoices(aim) ==
    IF aim = D1 THEN {NoRows, (D1 :> 5) @@ (I1 :> 5)}
    ELSE IF aim = T1 THEN {NoRows, (T1 :> 5) @@ (I1 :> 5) @@ (D1 :> 5)}
    ELSE IF aim = IBULL THEN {NoRows, (IBULL :> 5) @@ (OBULL :> 5)}
    ELSE IF aim = D2 THEN {(D2 :> 5) @@ (I2 :> 10), (D2 :> 5) @@ (I2 :> 5)}
    ELSE IF aim = I2 THEN {NoRows, (I2 :> 10)}
    ELSE {NoRows}

\* aim_empirical as the ingestion loop (lines 90-95) leaves it: an aimed
\* code is a key only when some row names it
DataOver(aims) ==
    {[a \in {x \in aims : f[x] # NoRows} |-> f[a]] :
        f \in {g \in [aims -> UNION {RowChoices(a) : a \in aims}] :
                \A a \in aims : g[a] \in RowChoices(a)}}

RECURSIVE SeqsUpTo(_, _)
SeqsUpTo(S, n) ==
    IF n = 0 THEN {<<>>}
    ELSE LET shorter == SeqsUpTo(S, n - 1)
         IN  shorter \cup {Append(s, x) : s \in {y \in shorter : Len(y) = n - 1}, x \in S}

ListItem(sq) == [kind |-> "list", v |-> sq]
StrItem(chars) == [kind |-> "str", v |-> chars]

(***************************************************************************)
(* Ingestion and the weighted linear fit (lines 66-122).  A historical     *)
(* file is the average of its first row (None when float() raises) and its *)
(* rows, counted per aimed code and landed bed.                            *)
(***************************************************************************)
\* lines 90-95: the rows of one file added to the pooled counters
add_rows(emp, rows) ==
    [a \in (DOMAIN emp) \cup (DOMAIN rows) |->
        LET old == IF a \in DOMAIN emp THEN emp[a] ELSE <<>>
            new == IF a \in DOMAIN rows THEN rows[a] ELSE <<>>
        IN  [b \in (DOMAIN old) \cup (DOMAIN new) |-> GetInt(old, b) + GetInt(new, b)]]

\* lines 71-95: a file without rows is skipped (line 82)
RECURSIVE ingest(_)
ingest(files) ==
    IF Len(files) = 0 THEN <<>>
    ELSE LET f == files[Len(files)]
             before == ingest(SubSeq(files, 1, Len(files) - 1))
         IN  IF DOMAIN f.rows = {} THEN before ELSE add_rows(before, f.rows)

\* lines 97-99
record_of(f) ==
    [avg |-> f.average,
     aimed |-> IF T20 \in DOMAIN f.rows
               THEN SumInt(f.rows[T20], DOMAIN f.rows[T20]) ELSE 0,
     hits |-> IF T20 \in DOMAIN f.rows THEN GetInt(f.rows[T20], T20) ELSE 0]

RECURSIVE records_of(_)
records_of(files) ==
    IF Len(files) = 0 THEN <<>>
    ELSE LET f == files[Len(files)]
             before == records_of(SubSeq(files, 1, Len(files) - 1))
         IN  IF DOMAIN f.rows = {} THEN before ELSE Append(before, record_of(f))

\* lines 104-108
RECURSIVE data_points_of(_)
data_points_of(records) ==
    IF Len(records) = 0 THEN <<>>
    ELSE LET r == records[Len(records)]
             before == data_points_of(SubSeq(records, 1, Len(records) - 1))
         IN  IF IsNone(r.avg) \/ r.aimed = 0 THEN before
             ELSE Append(before, [x |-> r.avg, y |-> Rat(r.hits, r.aimed), w |-> r.aimed])

RECURSIVE SumSeq(_)
SumSeq(s) == IF Len(s) = 0 THEN Zero ELSE RAdd(SumSeq(SubSeq(s, 1, Len(s) - 1)), s[Len(s)])

\* line 121
zero_variance_mut(var_x) == FALSE

zero_variance(var_x) == var_x = Zero

\* line 112
enough_points_mut(data_points) == Len(data_points) >= 1

enough_points(data_points) == Len(data_points) >= 2

\* lines 110-122
linear_fit(data_points) ==
    IF enough_points(data_points)
    THEN LET idx == 1..Len(data_points)
             wr(k) == Rat(data_points[k].w, 1)
             W == SumSeq([k \in idx |-> wr(k)])
             mean_x == RDiv(SumSeq([k \in idx |-> RMul(data_points[k].x, wr(k))]), W)
             mean_y == RDiv(SumSeq([k \in idx |-> RMul(data_points[k].y, wr(k))]), W)
             cov_xy == RDiv(SumSeq([k \in idx |->
                          RMul(wr(k), RMul(RSub(data_points[k].x, mean_x),
                                           RSub(data_points[k].y, mean_y)))]), W)
             var_x == RDiv(SumSeq([k \in idx |->
                          RMul(wr(k), RMul(RSub(data_points[k].x, mean_x),
                                           RSub(data_points[k].x, mean_x)))]), W)
             sl == IF ~zero_variance(var_x) THEN RDiv(cov_xy, var_x) ELSE Zero
         IN  [slope |-> sl, intercept |-> RSub(mean_y, RMul(sl, mean_x))]
    ELSE [slope |-> None, intercept |-> None]

(***************************************************************************)
(* Initial states: the tables as ingestion, the fit and the multipliers    *)
(* (lines 66-149) leave them.                                              *)
(***************************************************************************)
TablesFrom(files) ==
    /\ aim_empirical = ingest(files)
    /\ aim_counts = [a \in DOMAIN ingest(files) |->
                        SumInt(ingest(files)[a], DOMAIN ingest(files)[a])]
    /\ per_file_records = records_of(files)
    /\ slope = linear_fit(data_points_of(records_of(files))).slope
    /\ intercept = linear_fit(data_points_of(records_of(files))).intercept
    /\ mult_double = mult_double_of(ingest(files))
    /\ mult_single = mult_single_of(ingest(files))
    /\ bin_distributions = <<>>
    /\ candidates = <<>>

\* the tables after one file with the rows of data, whose rows have no
\* average column (line 86 reads 0.0); no row is aimed at t20, so
\* data_points is empty and slope and intercept stay None
TablesInit(data) ==
    TablesFrom(IF DOMAIN data = {} THEN <<>>
               ELSE <<[average |-> Zero, rows |-> data]>>)

LoopInit ==
    /\ bin = bins[1]
    /\ T = 2
    /\ model_seqs = <<>>
    /\ ci = 0
    /\ seq = <<>>
    /\ di = 0
    /\ states = <<>>
    /\ success = Zero
    /\ scored = <<>>
    /\ results = <<>>
    /\ safety = Zero
    /\ call = <<>>
    /\ ret = <<>>

Init ==
    /\ \E data \in DataOver({D1, T1, IBULL}) : TablesInit(data)
    /\ LoopInit
    /\ pc = "precompute"

\* the candidates file: a one-sequence list under every total (the same
\* sequence, cut to its first MaxLen - 1 darts under the bull total 50),
\* the template of line 251 (an empty list under every total), or the
\* empty dict of line 249
CandidateFiles ==
    {[k \in {StrOf(t) : t \in Totals} |->
         <<ListItem(IF k = StrOf(50) /\ Len(sq) = MaxLen
                    THEN Prefix(sq, MaxLen - 1) ELSE sq)>>] :
        sq \in SeqsUpTo({D1, T1, S1, IBULL}, MaxLen)}
    \cup {[k \in {StrOf(t) : t \in Totals} |-> <<>>], <<>>}

(***************************************************************************)
(* Actions.                                                                *)
(***************************************************************************)
\* lines 229-239, for the bins the model goes on to process
Precompute(some_bins) ==
    /\ pc = "precompute"
    /\ bin_distributions' =
          [lb \in {b.label : b \in some_bins} |->
              [aimed \in aim_targets_to_consider |->
                  build_distribution_for_aim(aimed,
                      (CHOOSE b \in some_bins : b.label = lb).rep)]]
    /\ pc' = "load"
    /\ UNCHANGED <<aim_empirical, aim_counts, per_file_records, slope, intercept, mult_double,
                   mult_single, candidates, unit, ci, seq, di, states, success,
                   scored, results, safety, calls>>

\* lines 242-257
LoadCandidates(files) ==
    /\ pc = "load"
    /\ candidates' \in files
    /\ pc' = "unit"
    /\ UNCHANGED <<aim_empirical, aim_counts, per_file_records, slope, intercept, mult_double,
                   mult_single, bin_distributions, unit, ci, seq, di, states,
                   success, scored, results, safety, calls>>

\* lines 358-369: the loops reach some (bin, total)
BeginUnit ==
    /\ pc = "unit"
    /\ bin' \in {b \in BinChoices : b.label \in DOMAIN bin_distributions}
    /\ T' \in Totals
    /\ LET cand_raw == IF StrOf(T') \in DOMAIN candidates
                       THEN candidates[StrOf(T')] ELSE <<>>
       IN  model_seqs' = [k \in 1..Len(cand_raw) |-> parse_candidate_sequence(cand_raw[k])]
    /\ scored' = <<>>
    /\ ci' = 1
    /\ pc' = "loop"
    /\ UNCHANGED <<tables, seq, di, states, success, results, safety, calls>>

\* line 370-371 and lines 273-277: the next candidate, and the call
BeginCandidate ==
    /\ pc = "loop"
    /\ ci <= Len(model_seqs)
    /\ seq' = model_seqs[ci]
    /\ states' = (T :> One)
    /\ success' = Zero
    /\ di' = 1
    /\ pc' = IF Len(model_seqs[ci]) = 0 THEN "return" ELSE "dart"
    /\ UNCHANGED <<tables, unit, ci, scored, results, safety, calls>>

\* lines 279-284: the distribution of the dart is bound to the local probs;
\* one built on the fly is not stored in bin_distributions
distributions_after_mut(aimed, probs) ==
    [bin_distributions EXCEPT ![bin.label] = (aimed :> probs) @@ @]
distributions_after(aimed, probs) == bin_distributions

\* lines 277-310: one iteration of the loop over the darts
ThrowDart ==
    /\ pc = "dart"
    /\ LET probs == probs_for(Lower(seq[di]))
           out == dart_loops(Branches(states, probs), states, probs,
                             [success |-> success, new_states |-> <<>>])
       IN  /\ success' = out.success
           /\ states' = out.new_states
           /\ bin_distributions' = distributions_after(Lower(seq[di]), probs)
           /\ pc' = IF DOMAIN out.new_states = {} \/ di = Len(seq)
                    THEN "return" ELSE "dart"
    /\ di' = di + 1
    /\ UNCHANGED <<aim_empirical, aim_counts, per_file_records, slope, intercept,
                   mult_double, mult_single, candidates, unit, ci, seq, scored,
                   results, safety, calls>>

\* line 399
keeps_mut(prob) == TRUE

keeps(prob) == RLt(Zero, prob)

\* lines 371-406: the returned probability is weighted and kept if positive
ScoreCandidate ==
    /\ pc = "return"
    /\ safety' = calculate_safety_score(seq, T)
    /\ scored' = IF keeps(success)
                 THEN Append(scored,
                        [sequence |-> seq,
                         success_prob |-> success,
                         success_prob_weighted |-> weighted(seq, success),
                         safety |-> calculate_safety_score(seq, T),
                         is_one_dart |-> (Len(seq) = 1)])
                 ELSE scored
    /\ ci' = ci + 1
    /\ pc' = "loop"
    /\ UNCHANGED <<tables, unit, seq, di, states, success, results, calls>>

\* lines 408-438
Publish ==
    /\ pc = "loop"
    /\ ci > Len(model_seqs)
    /\ scored' = sort_scored(scored)
    /\ results' = published(sort_scored(scored))
    /\ pc' = "done"
    /\ UNCHANGED <<tables, unit, ci, seq, di, states, success, safety, calls>>

Loop == BeginUnit \/ BeginCandidate \/ ThrowDart \/ ScoreCandidate \/ Publish

Next == Precompute(BinChoices) \/ LoadCandidates(CandidateFiles) \/ Loop

Spec == Init /\ [][Next]_vars


(***************************************************************************)
(* Properties of the dart-by-dart evaluation.                              *)
(***************************************************************************)
\* the distribution the dart about to be thrown uses
CurrentProbs == probs_for(Lower(seq[di]))

\* total probability of a state distribution
Mass(st) == SumRat(st, DOMAIN st)

\* the product p_rem * p_landed summed over a set of (rem, bed) pairs
PairMass(st, probs, B) ==
    SumRat([b \in B |-> RMul(st[b[1]], probs[b[2]])], B)

\* the (rem, bed) pairs of positive state mass
Pairs(st, probs) ==
    {b \in (DOMAIN st) \X (DOMAIN probs) : RLt(Zero, st[b[1]])}

\* a double bed as the rules name it: a code starting with 'd', or ibull
DoubleOrBull(bed) == Lower(bed) = IBULL \/ Lower(bed)[1] = "d"

\* C1: a landed bed whose points exceed rem gives its mass p_rem*p_landed
\* neither to success nor to any state of the next dart: the success gained
\* by a dart is at most the mass of the pairs landing exactly on 0, every
\* next state r holds at most the mass of the non-overshooting pairs with
\* rem - points = r (so no negative r), and when every pair overshoots the
\* dart adds nothing to success and leaves no state.
C1_OvershootDropped ==
    [][pc = "dart" =>
        LET probs == CurrentProbs
            fit == {b \in Pairs(states, probs) : score_of(b[2]) <= b[1]}
        IN  /\ RLe(RSub(success', success),
                   PairMass(states, probs, {b \in fit : b[1] - score_of(b[2]) = 0}))
            /\ \A r \in DOMAIN states' :
                  RLe(states'[r],
                      PairMass(states, probs, {b \in fit : b[1] - score_of(b[2]) = r}))
            /\ fit = {} => (success' = success /\ DOMAIN states' = {})]_vars

\* C1 witness: a one-dart sequence all of whose landings score more than T
\* has been evaluated, and its success is 0
C1_Witness ==
    /\ pc = "return"
    /\ Len(seq) = 1
    /\ di = 2
    /\ \A bed \in DOMAIN probs_for(Lower(seq[1])) : score_of(bed) > T
    /\ success = Zero
    /\ DOMAIN states = {}

\* C2: a dart adds to success exactly the mass of the pairs landing on 0
\* with a double or ibull; a pair landing on 0 with another bed is not
\* carried either: no next state has remaining 0.
C2_DoubleOut ==
    [][pc = "dart" =>
        LET probs == CurrentProbs
            finishing == {b \in Pairs(states, probs) :
                            b[1] - score_of(b[2]) = 0 /\ DoubleOrBull(b[2])}
        IN  /\ success' = RAdd(success, PairMass(states, probs, finishing))
            /\ 0 \notin DOMAIN states']_vars

\* C2 witness: the first dart could land exactly on 0 with a bed that is no
\* double, and nothing was counted
C2_Witness ==
    /\ pc = "return"
    /\ di = 2
    /\ \E bed \in DOMAIN probs_for(Lower(seq[1])) :
          /\ score_of(bed) = T
          /\ ~DoubleOrBull(bed)
          /\ RLt(Zero, probs_for(Lower(seq[1]))[bed])
    /\ success = Zero

\* C3: after a dart no state has remaining 1, 0 or less, and the mass of
\* the pairs landing exactly on 1 has left the system: it is in the success
\* total no more than in the states of the later darts.
C3_NoFinishOnOne ==
    [][pc = "dart" =>
        LET probs == CurrentProbs
            on_one == {b \in Pairs(states, probs) : b[1] - score_of(b[2]) = 1}
        IN  /\ \A r \in DOMAIN states' : r >= 2
            /\ RLe(RAdd(RAdd(success', Mass(states')),
                        PairMass(states, probs, on_one)),
                   RAdd(success, Mass(states)))]_vars

\* C3 witness: after the first dart, which could land on remaining 1
C3_Witness ==
    /\ pc \in {"dart", "return"}
    /\ di = 2
    /\ \E bed \in DOMAIN probs_for(Lower(seq[1])) :
          /\ T - score_of(bed) = 1
          /\ RLt(Zero, probs_for(Lower(seq[1]))[bed])

\* a distribution with non-negative probabilities that sum to 1
ValidDistribution(probs) ==
    /\ \A bed \in DOMAIN probs : RLe(Zero, probs[bed])
    /\ SumRat(probs, DOMAIN probs) = One

\* C4: when the distributions of the sequence are non-negative and sum to
\* 1, success plus the mass of the surviving states is at most 1 after each
\* dart, and success lies in [0, 1].
C4_MassBounded ==
    (pc \in {"dart", "return"}
        /\ \A k \in 1..Len(seq) : ValidDistribution(probs_for(Lower(seq[k]))))
    => /\ RLe(RAdd(success, Mass(states)), One)
       /\ RLe(Zero, success)
       /\ RLe(success, One)

\* C4 witness: two darts thrown, some mass finished, some survives, some lost
C4_Witness ==
    /\ pc \in {"dart", "return"}
    /\ di = 3
    /\ \A k \in 1..Len(seq) : ValidDistribution(probs_for(Lower(seq[k])))
    /\ RLt(Zero, success)
    /\ DOMAIN states # {}
    /\ RLt(RAdd(success, Mass(states)), One)

\* C5: the value returned for a one-dart sequence [a] is the probability
\* the distribution of a gives to the double or ibull beds worth exactly T.
C5_OneDart ==
    (pc = "return" /\ Len(seq) = 1)
    => LET probs == probs_for(Lower(seq[1]))
       IN  success = SumRat(probs, {bed \in DOMAIN probs :
                                      DoubleOrBull(bed) /\ score_of(bed) = T})

\* C5 witness: a one-dart sequence returned a positive probability
C5_Witness ==
    /\ pc = "return"
    /\ Len(seq) = 1
    /\ RLt(Zero, success)


(***************************************************************************)
(* The ranking of several candidates: the same program, with inputs that   *)
(* give a total several eligible candidates.                               *)
(***************************************************************************)
D5 == <<"d", "5">>
D20 == <<"d", "2", "0">>
I10 == <<"i", "1", "0">>

\* the raw candidate items, as lists and as delimited strings
RankItems ==
    {ListItem(<<D1>>),
     ListItem(<<D2>>),
     ListItem(<<D1, D1, D1>>),
     StrItem(<<" ", "I", "2", ",", "d", "1">>),
     ListItem(<<D1, IBULL>>),
     ListItem(<<IBULL>>),
     StrItem(<<"d", "2", "0", "|", "d", "5", "|", "d", "5">>),
     ListItem(<<I10, D20, D5>>)}

\* a list under every total, or the empty dict of line 249
RankFiles ==
    {[k \in {StrOf(t) : t \in Totals} |-> l] : l \in SeqsUpTo(RankItems, MaxCands)}
        \cup {<<>>}

\* ten rows that all landed on the aimed bed, for three aims
SureRows == [a \in {D20, D5, I10} |-> (a :> 10)]

RankData ==
    {d @@ e : d \in {x \in DataOver({D1, D2}) : D1 \in DOMAIN x /\ x[D1][D1] = 5},
              e \in {<<>>, SureRows}}

InitRank ==
    /\ \E data \in RankData : TablesInit(data)
    /\ LoopInit
    /\ pc = "precompute"

NextRank == Precompute({bins[1]}) \/ LoadCandidates(RankFiles) \/ Loop

SpecRank == InitRank /\ [][NextRank]_vars

\* compute_success_prob_for_seq_given_T as a function of the sequence:
\* the darts from index k on, from the state distribution st
RECURSIVE success_from(_, _, _, _)
success_from(sq, k, st, succ) ==
    IF k > Len(sq) THEN succ
    ELSE LET probs == probs_for(Lower(sq[k]))
             out == dart_loops(Branches(st, probs), st, probs,
                               [success |-> succ, new_states |-> <<>>])
         IN  IF DOMAIN out.new_states = {} THEN out.success
             ELSE success_from(sq, k + 1, out.new_states, out.success)

success_prob(sq) == success_from(sq, 1, (T :> One), Zero)

(***************************************************************************)
(* Properties of the ranking.                                              *)
(***************************************************************************)
\* per candidate of the unit: what the evaluator returns for it, and its
\* safety score
RawTable == [k \in 1..Len(model_seqs) |-> success_prob(model_seqs[k])]
SafetyTable == [k \in 1..Len(model_seqs) |-> calculate_safety_score(model_seqs[k], T)]

\* the candidates that are eligible: positive raw probability
EligibleIn(raw) == {k \in DOMAIN raw : RLt(Zero, raw[k])}

\* the multipliers as the claims list them
Multiplier(sq) ==
    LET darts == IF Len(sq) = 1 THEN Rat(13, 10)
                 ELSE IF Len(sq) = 2 THEN Rat(11, 10) ELSE One
        bull == IF Len(sq) > 0 /\ Lower(sq[Len(sq)]) = IBULL THEN Rat(85, 100) ELSE One
        lead == IF Len(sq) = 2 /\ Lower(sq[1])[1] \in {"t", "d"}
                THEN Rat(90, 100) ELSE One
    IN  RMul(RMul(darts, bull), lead)

WeightedTable(raw) == [k \in DOMAIN raw |-> RMul(raw[k], Multiplier(model_seqs[k]))]

\* C6: the published best sequence is an eligible candidate that no other
\* eligible candidate beats: none has a strictly larger weighted score, or
\* an equal weighted score with strictly larger safety.
C6_BestIsMaximal ==
    (pc = "done" /\ Len(scored) > 0)
    => \E raw \in {RawTable}, saf \in {SafetyTable} :
         \E w \in {WeightedTable(raw)} :
           \E b \in EligibleIn(raw) :
              /\ Join(model_seqs[b]) = results.best.sequence
              /\ \A c \in EligibleIn(raw) :
                    /\ ~RLt(w[b], w[c])
                    /\ w[c] = w[b] => ~RLt(saf[b], saf[c])

\* C6 witness: two eligible candidates tie on the weighted score, the later
\* one in the file has the larger safety and is published as best
C6_Witness ==
    /\ pc = "done"
    /\ \E raw \in {RawTable}, saf \in {SafetyTable} :
         \E w \in {WeightedTable(raw)} :
           \E b, c \in EligibleIn(raw) :
              /\ c < b
              /\ w[c] = w[b]
              /\ RLt(saf[c], saf[b])
              /\ Join(model_seqs[b]) = results.best.sequence

\* C7 as stated: the published best sequence has the highest raw
\* probability of the eligible candidates, ties broken by higher safety,
\* and its published success_prob is that maximum.
C7_BestHasMaxRaw ==
    (pc = "done" /\ Len(scored) > 0)
    => \E raw \in {RawTable}, saf \in {SafetyTable} :
         \E b \in EligibleIn(raw) :
            /\ Join(model_seqs[b]) = results.best.sequence
            /\ results.best.success_prob = raw[b]
            /\ \A c \in EligibleIn(raw) :
                  /\ RLe(raw[c], raw[b])
                  /\ raw[c] = raw[b] => RLe(saf[c], saf[b])

\* C7 amended: the published best sequence has the highest raw probability
\* among the eligible candidates with the same multiplier (an eligible
\* candidate of strictly higher raw probability has a strictly smaller
\* multiplier), ties among those broken by higher safety, and its
\* published success_prob is its own raw probability.
C7_BestHasMaxRawOfItsWeight ==
    (pc = "done" /\ Len(scored) > 0)
    => \E raw \in {RawTable}, saf \in {SafetyTable} :
         \E b \in EligibleIn(raw) :
            /\ Join(model_seqs[b]) = results.best.sequence
            /\ results.best.success_prob = raw[b]
            /\ \A c \in EligibleIn(raw) :
                  /\ RLt(raw[b], raw[c])
                        => RLt(Multiplier(model_seqs[c]), Multiplier(model_seqs[b]))
                  /\ (Multiplier(model_seqs[c]) = Multiplier(model_seqs[b])
                          /\ raw[c] = raw[b])
                        => RLe(saf[c], saf[b])

\* C7 witness: an eligible candidate has a higher raw probability than the
\* published best sequence
C7_Witness ==
    /\ pc = "done"
    /\ \E raw \in {RawTable} :
         \E b, c \in EligibleIn(raw) :
            /\ Join(model_seqs[b]) = results.best.sequence
            /\ results.best.success_prob = raw[b]
            /\ RLt(raw[b], raw[c])

\* C8: the ranking score of every kept candidate is its raw probability
\* times the multipliers and nothing else, its raw probability is the
\* evaluator's value, and the published success_prob values are the raw ones.
C8_WeightIsProduct ==
    (pc = "done" /\ Len(scored) > 0)
    => /\ \A k \in 1..Len(scored) :
             \E raw \in {success_prob(scored[k].sequence)} :
                /\ scored[k].success_prob = raw
                /\ scored[k].success_prob_weighted
                      = RMul(raw, Multiplier(scored[k].sequence))
                /\ k <= 5 => results.top_5[k].success_prob = raw
                /\ k = 1 => results.best.success_prob = raw
       /\ Len(results.top_5) = IF Len(scored) < 5 THEN Len(scored) ELSE 5

\* C8 witness: a published two-dart sequence that leads with a double and
\* ends on ibull, whose ranking score differs from its raw probability
C8_Witness ==
    /\ pc = "done"
    /\ Len(scored) > 0
    /\ Len(scored[1].sequence) = 2
    /\ scored[1].sequence[1][1] = "d"
    /\ scored[1].sequence[2] = IBULL
    /\ scored[1].success_prob_weighted
          = RMul(scored[1].success_prob, Rat(8415, 10000))

\* C9: the published safest entry names an eligible candidate whose safety
\* is the maximum safety over the eligible candidates, and publishes that
\* maximum.
C9_SafestIsMaxSafety ==
    (pc = "done" /\ Len(scored) > 0)
    => \E raw \in {RawTable}, saf \in {SafetyTable} :
         \E b \in EligibleIn(raw) :
            /\ Join(model_seqs[b]) = results.safest.sequence
            /\ results.safest.safety = saf[b]
            /\ \A c \in EligibleIn(raw) : RLe(saf[c], saf[b])

\* C9 witness: the safest candidate is not the best-ranked one
C9_Witness ==
    /\ pc = "done"
    /\ Len(scored) > 0
    /\ results.safest.sequence # results.best.sequence
    /\ RLt(results.best.safety, results.safest.safety)

(***************************************************************************)
(* calculate_safety_score on its own: the sequence and the total are drawn *)
(* from the values the results loop can pass (line 368), and one step      *)
(* applies the function.                                                   *)
(***************************************************************************)
\* line 362
AllTotals == 2..170

SafetyKinds == {"t", "d", "i", "o", "s", "T"}

SafetyFirstAims ==
    {Code(k, n) : k \in SafetyKinds, n \in 0..21}
        \cup {IBULL, OBULL, <<"t">>, <<"d", "x">>, <<"B", "U", "L", "L">>}

SafetySeqs ==
    {<<a, D1>> : a \in SafetyFirstAims}
        \cup {<<a, T1, D1>> : a \in {Code("t", 20), Code("i", 19), IBULL}}
        \cup {<<>>, <<D1>>, <<IBULL>>}

InitSafety ==
    /\ TablesInit(<<>>)
    /\ LoopInit
    /\ pc = "safety"

\* line 368
SafetyCall ==
    /\ pc = "safety"
    /\ \E sq \in SafetySeqs, total \in AllTotals :
          /\ seq' = sq
          /\ T' = total
          /\ safety' = calculate_safety_score(sq, total)
    /\ pc' = "done"
    /\ UNCHANGED <<tables, bin, model_seqs, ci, di, states, success, scored, results, calls>>

NextSafety == SafetyCall

SpecSafety == InitSafety /\ [][NextSafety]_vars

\* the first aim of the sequence names one of the 20 board segments with a
\* kind that scores: treble, double, or a single (inner, outer, old 's')
ResolvesToSegment(aim) ==
    /\ Len(aim) > 1
    /\ LowerChar(aim[1]) \in {"t", "d", "i", "o", "s"}
    /\ IsDigitStr(Tail(aim))
    /\ IntOf(Tail(aim)) \in 1..20

BedValue(kind, n) ==
    IF kind = "t" THEN 3 * n ELSE IF kind = "d" THEN 2 * n ELSE n

\* what is left of the total after the dart lands in the same ring of the
\* two segments next to the aimed one
NeighbourLeaves(aim, total) ==
    LET n == IntOf(Tail(aim))
        kind == LowerChar(aim[1])
    IN  {total - BedValue(kind, LeftOf(n)), total - BedValue(kind, RightOf(n))}

DoubleValues == {2 * n : n \in 1..20}

\* C10 as stated: for a sequence of two or more darts whose first aim
\* resolves to a board segment, the safety is 0.9 whenever a neighbour
\* leaves the value of a double, 0.3 when a neighbour leaves 0 or 1, and
\* 0.5 otherwise.
C10_SafetyByNeighbours ==
    (pc = "done" /\ Len(seq) >= 2 /\ ResolvesToSegment(seq[1]))
    => LET left == NeighbourLeaves(seq[1], T)
       IN  safety = IF left \cap DoubleValues # {} THEN Rat(9, 10)
                    ELSE IF left \cap {0, 1} # {} THEN Rat(3, 10)
                    ELSE Rat(5, 10)

\* C11 as stated: for a sequence of two or more darts whose first aim does
\* not resolve to a board segment (a bull, a non-numeric suffix, an unknown
\* kind, a segment outside 1..20), the safety is one fixed value: the one
\* returned for a sequence that starts on the bull.
C11_OneDefault ==
    (pc = "done" /\ Len(seq) >= 2 /\ ~ResolvesToSegment(seq[1]))
    => safety = calculate_safety_score(<<IBULL, D1>>, T)

(***************************************************************************)
(* The results loop with long candidate lists: more candidates than the    *)
(* five that top_5 keeps (line 436).                                       *)
(***************************************************************************)
MaxTop == 7         \* longest candidate list of a total in SpecTop

\* raw candidate items; under total 4 all but the last have a way to finish
TopItems ==
    <<ListItem(<<D2>>),
      ListItem(<<D1, D1>>),
      ListItem(<<D1, D1, D1>>),
      StrItem(<<"i", "2", ",", "d", "1">>),
      StrItem(<<"d", "2", "|", "D", "1">>),
      ListItem(<<D2, D1, D1>>),
      ListItem(<<I2, D1, D1>>),
      ListItem(<<D2, D2>>)>>

\* the list of n items that starts at item first and wraps around
TopList(first, n) ==
    [k \in 1..n |-> TopItems[((first + k - 2) % Len(TopItems)) + 1]]

TopFiles ==
    {[k \in {StrOf(t) : t \in Totals} |-> TopList(first, n)] :
        first \in 1..Len(TopItems), n \in 0..MaxTop}

NextTop == Precompute({bins[1]}) \/ LoadCandidates(TopFiles) \/ Loop

SpecTop == InitRank /\ [][NextTop]_vars

\* candidate c goes before candidate e in the ranking order: larger
\* weighted score, then larger safety
Outranks(w, saf, c, e) ==
    \/ RLt(w[e], w[c])
    \/ w[e] = w[c] /\ RLt(saf[e], saf[c])

\* the place of eligible candidate c in the ranking order, candidates that
\* tie staying in file order
PlaceOf(raw, w, saf, c) ==
    1 + Cardinality({e \in EligibleIn(raw) :
                        \/ Outranks(w, saf, e, c)
                        \/ e < c /\ ~Outranks(w, saf, c, e)})

\* C12: top_5 holds min(5, number of eligible candidates) entries, entry k
\* is the eligible candidate at place k of the ranking order with its raw
\* probability and safety, and the first entry is the published best.
C12_TopFive ==
    pc = "done"
    => \E raw \in {RawTable}, saf \in {SafetyTable} :
         \E w \in {WeightedTable(raw)} :
            /\ Len(results.top_5) <= 5
            /\ Len(results.top_5)
                  = IF Cardinality(EligibleIn(raw)) < 5
                    THEN Cardinality(EligibleIn(raw)) ELSE 5
            /\ \A c \in EligibleIn(raw) :
                  PlaceOf(raw, w, saf, c) <= 5
                  => results.top_5[PlaceOf(raw, w, saf, c)]
                        = [sequence |-> model_seqs[c], success_prob |-> raw[c],
                           safety |-> saf[c], is_one_dart |-> Len(model_seqs[c]) = 1]
            /\ Len(results.top_5) > 0
                  => /\ results.best.sequence = Join(results.top_5[1].sequence)
                     /\ results.best.success_prob = results.top_5[1].success_prob
                     /\ results.best.safety = results.top_5[1].safety

\* C12 witness: more than five candidates are eligible and five are published
C12_Witness ==
    /\ pc = "done"
    /\ Len(scored) > 5
    /\ Len(results.top_5) = 5
    /\ results.best.sequence = Join(results.top_5[1].sequence)

\* the entry published when nothing is eligible (lines 412-438)
EmptyResult ==
    [best |-> [sequence |-> <<>>, success_prob |-> Zero, safety |-> Zero],
     safest |-> [sequence |-> <<>>, safety |-> Zero],
     top_5 |-> <<>>]

\* C13: whatever is published as best, safest or in top_5 is a candidate
\* of strictly positive raw probability, and when no candidate has one
\* (none supplied, or all evaluate to 0) the unit still completes and
\* publishes the empty result.
C13_OnlyPositiveEligible ==
    pc = "done"
    => \E raw \in {RawTable} :
          /\ \A k \in 1..Len(results.top_5) :
                \E c \in EligibleIn(raw) : model_seqs[c] = results.top_5[k].sequence
          /\ results.best.sequence # <<>>
                => \E c \in EligibleIn(raw) : Join(model_seqs[c]) = results.best.sequence
          /\ results.safest.sequence # <<>>
                => \E c \in EligibleIn(raw) : Join(model_seqs[c]) = results.safest.sequence
          /\ EligibleIn(raw) = {} => results = EmptyResult
          /\ EligibleIn(raw) # {} => results.best.sequence # <<>>

\* C13 witness: two candidates were supplied, both evaluate to 0, and the
\* empty result is published
C13_Witness ==
    /\ pc = "done"
    /\ Len(model_seqs) = 2
    /\ \A k \in 1..2 : Len(model_seqs[k]) > 0 /\ success_prob(model_seqs[k]) = Zero
    /\ results = EmptyResult

\* C14 as stated: the entry published for a unit whose candidates were all
\* evaluated and all have probability 0 differs from the entry published
\* for a unit with an empty or missing candidate list.
C14_EmptyDistinguished ==
    (pc = "done" /\ Len(model_seqs) > 0 /\ Len(scored) = 0)
    => results # published(<<>>)

(***************************************************************************)
(* The tables built from several historical files, some of them with rows  *)
(* aimed at t20, and the results loop over them.                           *)
(***************************************************************************)
I20 == <<"i", "2", "0">>
S20 == <<"s", "2", "0">>
DX == <<"d", "x">>
T21 == <<"t", "2", "1">>
X9 == <<"x", "9">>

\* files with rows aimed at t20, at averages 40, 60 and 40
FileA == [average |-> Rat(40, 1), rows |-> (T20 :> ((T20 :> 2) @@ (I20 :> 8)))]
FileB == [average |-> Rat(60, 1), rows |-> (T20 :> ((T20 :> 4) @@ (I20 :> 6)))]
FileC == [average |-> Rat(40, 1), rows |-> (T20 :> ((T20 :> 3) @@ (I20 :> 7)))]
\* a file whose average does not parse (line 88)
FileBad == [average |-> None, rows |-> (T20 :> ((T20 :> 4) @@ (I20 :> 6)))]
\* nine rows aimed at d1, one at i2, and rows whose aimed code names no bed
FileD ==
    [average |-> Rat(50, 1),
     rows |-> (D1 :> ((D1 :> 5) @@ (I1 :> 4))) @@ (I2 :> (I2 :> 1))
                @@ (DX :> (DX :> 1)) @@ (T21 :> (I20 :> 1)) @@ (X9 :> (I1 :> 1))]
\* the tenth row aimed at d1
FileE == [average |-> Rat(50, 1), rows |-> (D1 :> (D1 :> 1))]
\* a file at average 60 with a lower t20 hit rate than FileA at 40
FileF == [average |-> Rat(60, 1), rows |-> (T20 :> ((T20 :> 1) @@ (I20 :> 9)))]
\* a file without rows (line 82)
FileNone == [average |-> Rat(50, 1), rows |-> <<>>]

FileSets ==
    {<<>>, <<FileA>>, <<FileA, FileB>>, <<FileA, FileC>>, <<FileA, FileBad>>,
     <<FileA, FileF>>, <<FileD>>, <<FileD, FileE>>, <<FileA, FileB, FileD>>,
     <<FileA, FileB, FileD, FileE>>, <<FileNone, FileB, FileA>>}

BuildFiles ==
    {[k \in {StrOf(t) : t \in Totals} |-> <<ListItem(sq)>>] :
        sq \in {<<S20, D1>>, <<S20, S20, I20>>, <<D1>>, <<T20, D1>>, <<I2, D1>>}}

AllBins == {bins[k] : k \in 1..Len(bins)}

InitBuild ==
    /\ \E files \in FileSets : TablesFrom(files)
    /\ LoopInit
    /\ pc = "precompute"

NextBuild == Precompute(AllBins) \/ LoadCandidates(BuildFiles) \/ Loop

SpecBuild == InitBuild /\ [][NextBuild]_vars

\* the aimed code has fewer records than the empirical branch needs
Synthesized(aimed) == GetInt(aim_counts, aimed) < MIN_EMPIRICAL_SAMPLES

\* C15: every synthesized distribution, in the tables as precomputation
\* leaves them for every bin or built on the fly for the dart about to be
\* thrown, has only non-negative probabilities and they sum to 1.
C15_FallbackSumsToOne ==
    /\ pc = "load"
          => \A lb \in DOMAIN bin_distributions :
                \A aimed \in DOMAIN bin_distributions[lb] :
                   Synthesized(aimed) => ValidDistribution(bin_distributions[lb][aimed])
    /\ (pc = "dart" /\ Synthesized(Lower(seq[di]))) => ValidDistribution(CurrentProbs)

\* C15 witness: a fit exists, the tables of all bins are built, among them
\* the synthesized distribution of an aim whose code names no bed, and the
\* dart about to be thrown uses a distribution built on the fly
C15_Witness ==
    /\ ~IsNone(slope)
    /\ {b.label : b \in AllBins} \subseteq DOMAIN bin_distributions
    /\ DX \in DOMAIN bin_distributions[bin.label]
    /\ Synthesized(DX)
    /\ pc = "dart"
    /\ Lower(seq[di]) \notin DOMAIN bin_distributions[bin.label]

\* the representative average of the bin with the given label
RepOf(lb) == (CHOOSE b \in AllBins : b.label = lb).rep

\* the four landings that share what the hit probability leaves: the inner
\* singles of the two board neighbours, the inner single and the double
FourLandings(n) ==
    {Code("i", LeftOf(n)), Code("i", RightOf(n)), Code("i", n), Code("d", n)}

\* the aim codes of the given kinds with a segment in 1..20
SegmentAims(kinds) == {Code(k, n) : k \in kinds, n \in 1..20}

\* the synthesized distribution of the aim gives the aimed target the hit
\* probability and each of the four landings a quarter of the rest
HitAndQuarters(lb, aimed) ==
    LET dist == bin_distributions[lb][aimed]
        p == p_hit_of(aimed, RepOf(lb))
        four == FourLandings(IntOf(Tail(aimed)))
    IN  /\ DOMAIN dist = {aimed} \cup four
        /\ dist[aimed] = p
        /\ \A c \in four \ {aimed} : dist[c] = RDiv(RSub(One, p), Rat(4, 1))

\* C16 as stated: in every synthesized distribution for an aim with a
\* segment in 1..20, the aimed target has the hit probability and the
\* remaining 1 - hit probability is split evenly over the four landings.
C16_HitThenEvenSplit ==
    pc = "load"
    => \A lb \in DOMAIN bin_distributions :
          \A aimed \in SegmentAims({"t", "d", "i", "o"}) :
             Synthesized(aimed) => HitAndQuarters(lb, aimed)

\* the relative frequencies of the recorded landings of an aim
RelativeFrequencies(aimed) ==
    LET rows == aim_empirical[aimed]
        n == SumInt(rows, DOMAIN rows)
    IN  [bed \in DOMAIN rows |-> Rat(rows[bed], n)]

\* C17: in the tables of every bin, an aim with 10 or more records has its
\* relative frequencies, the same in every bin and summing to 1, and an aim
\* with 9 or fewer has the synthesized distribution of the bin; an aim that
\* is built on the fly has no records and gets a synthesized distribution.
C17_EmpiricalFromTenRecords ==
    /\ pc = "load"
          => \A lb \in DOMAIN bin_distributions :
                \A aimed \in DOMAIN bin_distributions[lb] :
                   IF aimed \in DOMAIN aim_empirical
                        /\ SumInt(aim_empirical[aimed], DOMAIN aim_empirical[aimed]) >= 10
                   THEN /\ bin_distributions[lb][aimed] = RelativeFrequencies(aimed)
                        /\ SumRat(bin_distributions[lb][aimed],
                                  DOMAIN bin_distributions[lb][aimed]) = One
                        /\ \A other \in DOMAIN bin_distributions :
                              bin_distributions[other][aimed] = bin_distributions[lb][aimed]
                   ELSE bin_distributions[lb][aimed]
                            = fallback_distribution(aimed, RepOf(lb))
    /\ (pc = "dart" /\ Lower(seq[di]) \notin DOMAIN bin_distributions[bin.label])
          => /\ Lower(seq[di]) \notin DOMAIN aim_empirical
             /\ CurrentProbs
                   = fallback_distribution(Lower(seq[di]), on_the_fly_avg(bin.label))

\* C17 witness: the tables are built from files that hold exactly 10
\* records aimed at d1 and fewer than 10 aimed at i2, with a fit, so that
\* the synthesized distributions differ between the bins
C17_Witness ==
    /\ pc = "load"
    /\ ~IsNone(slope)
    /\ GetInt(aim_counts, D1) = 10
    /\ GetInt(aim_counts, I2) = 1
    /\ bin_distributions[bins[1].label][D1] = (D1 :> Rat(6, 10)) @@ (I1 :> Rat(4, 10))
    /\ bin_distributions[bins[1].label][I2] # bin_distributions[bins[2].label][I2]

\* C18 as stated: the distribution the DP evaluator uses for a dart whose
\* aim has too few records is the synthesized one at the representative
\* average of the bin being processed, whether it was precomputed or is
\* built on the fly.
C18_BuiltAtBinRep ==
    (pc = "dart" /\ Synthesized(Lower(seq[di])))
    => CurrentProbs = fallback_distribution(Lower(seq[di]), bin.rep)

\* the data points of the fit, from the per-file records
DataPoints == data_points_of(per_file_records)

\* fewer than 2 data points, or all their averages identical
NoModel ==
    \/ Len(DataPoints) < 2
    \/ \A j, k \in 1..Len(DataPoints) : DataPoints[j].x = DataPoints[k].x

\* C19 as stated: when there are fewer than 2 data points or all averages
\* are identical, there is no slope and intercept and the base hit rate of
\* every bin is the default 0.2; a slope and intercept exist only with at
\* least 2 points of non-zero variance.
C19_NoModelDefault ==
    pc = "load"
    => IF NoModel
       THEN /\ IsNone(slope)
            /\ IsNone(intercept)
            /\ \A b \in AllBins : p_hit_t20_of(b.rep) = Rat(2, 10)
       ELSE ~IsNone(slope) /\ ~IsNone(intercept)

\* the aim code parses into a kind and a segment 1..20, or is a bull
WellFormedAim(aimed) == aimed \in {IBULL, OBULL} \/ ResolvesToSegment(aimed)

\* C20 as stated: an aim code that is not well formed gets an error
\* outcome, not a distribution, while a well-formed aim code without
\* records gets a synthesized distribution.
C20_MalformedRejected ==
    pc = "load"
    => \A lb \in DOMAIN bin_distributions :
          \A aimed \in DOMAIN bin_distributions[lb] :
             IF WellFormedAim(aimed)
             THEN GetInt(aim_counts, aimed) = 0
                     => ValidDistribution(bin_distributions[lb][aimed])
             ELSE ~ValidDistribution(bin_distributions[lb][aimed])


(***************************************************************************)
(* api.py: calculate_sequence_value (lines 540-616).                       *)
(***************************************************************************)
\* the -1 the API functions return for an invalid input
Invalid == -1

\* the value one target adds to the total (lines 562-614), Invalid where the
\* code returns -1
target_value(target0) ==
    LET target == Lower(Strip(target0))
        rest == Tail(target)
    IN  IF target = IBULL THEN 50
        ELSE IF target = OBULL THEN 25
        ELSE IF Len(target) < 2 THEN Invalid
        ELSE IF target[1] = "o" THEN (IF IsDigitStr(rest) THEN 25 ELSE Invalid)
        ELSE IF target[1] = "i" THEN (IF IsDigitStr(rest) THEN 50 ELSE Invalid)
        ELSE IF target[1] \notin {"t", "d", "s"} THEN Invalid
        ELSE IF ~IsDigitStr(rest) THEN Invalid
        ELSE IF IntOf(rest) < 1 \/ IntOf(rest) > 20 THEN Invalid
        ELSE (CASE target[1] = "t" -> 3 [] target[1] = "d" -> 2
                [] target[1] = "s" -> 1) * IntOf(rest)

\* the for loop of lines 561-614 over the targets from position k on
RECURSIVE value_loop(_, _, _)
value_loop(targets, k, total) ==
    IF k > Len(targets) THEN total
    ELSE IF target_value(targets[k]) = Invalid THEN Invalid
    ELSE value_loop(targets, k + 1, total + target_value(targets[k]))

calculate_sequence_value(sequence) ==
    IF Len(sequence) = 0 THEN Invalid
    ELSE value_loop(Split(sequence, ","), 1, 0)

\* ','.join(codes)
RECURSIVE CommaJoin(_)
CommaJoin(s) ==
    IF Len(s) = 0 THEN <<>>
    ELSE IF Len(s) = 1 THEN s[1]
    ELSE s[1] \o <<",">> \o CommaJoin(Tail(s))

\* the target codes of the notation: a kind and a segment, and the two bulls
ValueSegments == {1, 5, 16, 20}
ValueKinds == {"t", "d", "s", "i", "o"}
ValidCodes ==
    {Code(kind, n) : kind \in ValueKinds, n \in ValueSegments} \cup {IBULL, OBULL}
MaxDarts == 2
ValidSequences ==
    UNION {[1..n -> ValidCodes] : n \in 1..MaxDarts}

InitValue ==
    /\ TablesInit(<<>>)
    /\ LoopInit
    /\ pc = "value"

\* one call of calculate_sequence_value on the text of a valid sequence
ValueCall ==
    /\ pc = "value"
    /\ \E codes \in ValidSequences :
          /\ call' = codes
          /\ ret' = calculate_sequence_value(CommaJoin(codes))
    /\ pc' = "valued"
    /\ UNCHANGED <<tables, unit, ci, seq, di, states, success, scored, results, safety>>

NextValue == ValueCall

SpecValue == InitValue /\ [][NextValue]_vars

RECURSIVE SumScores(_)
SumScores(codes) ==
    IF Len(codes) = 0 THEN 0
    ELSE score_of(codes[1]) + SumScores(Tail(codes))

\* C21 as stated: the two conversions of a target code to points agree: the
\* API's value of a valid sequence is the sum of score_of over its targets.
\* Violated: 'o16,t16,d20' is worth 113 to the API and 104 to score_of.
C21_SameValue ==
    pc = "valued" => ret = SumScores(call)

(***************************************************************************)
(* Initial_Model.py: the bins with their bounds (lines 81-94), the hit     *)
(* rate of each bin from the records that fall in it (lines 99-117) and    *)
(* the filling of the bins without data (lines 119-150).  A record is      *)
(* (average, aimed, hits) of one file, the fields the bins read.           *)
(***************************************************************************)
MC_BIN_START == 20

\* A hit rate is multiplied by 1.1 or 0.9 once per borrowing, up to nine times
\* in a row, so its exact value is held as (n/d) * 2^e2 * 5^e5 * 11^e11 with n
\* and d coprime to each other and to 2, 5 and 11: equal rates have equal
\* records, and no component outgrows 32 bits.
RECURSIVE Multiplicity(_, _)
Multiplicity(p, q) == IF q % p = 0 THEN 1 + Multiplicity(p, q \div p) ELSE 0

RECURSIVE Without(_, _)
Without(p, q) == IF q % p = 0 THEN Without(p, q \div p) ELSE q

Core(q) == Without(2, Without(5, Without(11, q)))

Exponent(p, r) == Multiplicity(p, r.n) - Multiplicity(p, r.d)

\* the rate r, a fraction n/d with n >= 0
Rate(r) ==
    IF r.n = 0 THEN [n |-> 0, d |-> 1, e2 |-> 0, e5 |-> 0, e11 |-> 0]
    ELSE [n |-> Core(r.n), d |-> Core(r.d),
          e2 |-> Exponent(2, r), e5 |-> Exponent(5, r), e11 |-> Exponent(11, r)]

\* a * b
RateMul(a, b) ==
    IF a.n = 0 \/ b.n = 0 THEN Rate(Zero)
    ELSE [n |-> Rat(a.n * b.n, a.d * b.d).n, d |-> Rat(a.n * b.n, a.d * b.d).d,
          e2 |-> a.e2 + b.e2, e5 |-> a.e5 + b.e5, e11 |-> a.e11 + b.e11]
\* float('inf'), the high bound of the top bin
Inf == 999999

\* lines 83-94
RECURSIVE bounded_bins(_)
bounded_bins(start) ==
    IF start <= BIN_END - BIN_WIDTH
    THEN <<[label |-> StrOf(start) \o <<"-">> \o StrOf(start + BIN_WIDTH - 1),
            low |-> start,
            high |-> start + BIN_WIDTH - 1,
            rep |-> Rat(start + (start + BIN_WIDTH - 1), 2)]>>
         \o bounded_bins(start + BIN_WIDTH)
    ELSE IF BIN_END = 110
    THEN <<[label |-> StrOf(BIN_END) \o <<"+">>,
            low |-> BIN_END + 1,
            high |-> Inf,
            rep |-> Rat(2 * BIN_END + BIN_WIDTH, 2)]>>
    ELSE <<>>

mc_bins == bounded_bins(MC_BIN_START)

\* line 107
in_bin(avg, low, high) ==
    IF high # Inf
    THEN RLe(Rat(low, 1), avg) /\ RLe(avg, Rat(high, 1))
    ELSE RLe(Rat(low, 1), avg)

\* the records line 104 does not skip
counted(records) ==
    {k \in 1..Len(records) : ~IsNone(records[k].avg) /\ records[k].aimed # 0}

SumField(records, S, field) ==
    SumInt([k \in S |-> records[k][field]], S)

\* lines 61-63
overall_p_hit(records) ==
    LET overall_hits == SumField(records, 1..Len(records), "hits")
        overall_aimed == SumField(records, 1..Len(records), "aimed")
    IN  IF overall_aimed > 0 THEN Rate(Rat(overall_hits, overall_aimed)) ELSE Rate(Rat(1, 2))

\* lines 99-117: one entry of bin_stats
bin_stat(b, records) ==
    LET inside == {k \in counted(records) :
                      in_bin(records[k].avg, b.low, b.high)}
        bin_hits == SumField(records, inside, "hits")
        bin_aimed == SumField(records, inside, "aimed")
    IN  [label |-> b.label, low |-> b.low, high |-> b.high, rep |-> b.rep,
         p_hit |-> IF bin_aimed > 0 THEN Rate(Rat(bin_hits, bin_aimed)) ELSE None,
         aimed |-> bin_aimed]

bin_stats_of(records) == [k \in 1..Len(mc_bins) |-> bin_stat(mc_bins[k], records)]

increase_factor == Rate(Rat(11, 10))
decrease_factor == Rate(Rat(9, 10))

Largest(S) == CHOOSE x \in S : \A y \in S : y <= x
Smallest(S) == CHOOSE x \in S : \A y \in S : x <= y

\* line 149: the one multiplication of the borrowed rate
borrow(rate, factor) == RateMul(rate, factor)

\* lines 124-150: the pass over bin_stats from index i on; the list is
\* updated in place, so an entry filled earlier in the pass is no longer None
\* when a later entry looks for its nearest populated bin
RECURSIVE fill_loop(_, _, _)
fill_loop(bin_stats, i, overall) ==
    IF i > Len(bin_stats) THEN bin_stats
    ELSE IF ~IsNone(bin_stats[i].p_hit) THEN fill_loop(bin_stats, i + 1, overall)
    ELSE LET lower == {j \in 1..(i - 1) : ~IsNone(bin_stats[j].p_hit)}
             higher == {j \in (i + 1)..Len(bin_stats) : ~IsNone(bin_stats[j].p_hit)}
             source_idx ==
                 IF lower # {} /\ higher # {}
                 THEN (IF i - Largest(lower) <= Smallest(higher) - i
                       THEN Largest(lower) ELSE Smallest(higher))
                 ELSE IF lower # {} THEN Largest(lower)
                 ELSE Smallest(higher)
             filled ==
                 IF lower = {} /\ higher = {} THEN overall
                 ELSE IF RLt(bin_stats[source_idx].rep, bin_stats[i].rep)
                 THEN borrow(bin_stats[source_idx].p_hit, increase_factor)
                 ELSE borrow(bin_stats[source_idx].p_hit, decrease_factor)
         IN  fill_loop([bin_stats EXCEPT ![i].p_hit = filled], i + 1, overall)

\* the files the bins are computed from: an average inside a bin, between
\* two bins, on BIN_END and in the top bin, an unreadable average, and files
\* with and without t20 throws
MaxRecords == 2
RecordAverages == {Rat(25, 1), Rat(79, 2), Rat(55, 1), Rat(110, 1), Rat(115, 1), None}
RecordCounts == {<<0, 0>>, <<10, 2>>, <<10, 5>>}
RecordChoices ==
    {[avg |-> a, aimed |-> c[1], hits |-> c[2]] : a \in RecordAverages, c \in RecordCounts}
RecordLists == UNION {[1..n -> RecordChoices] : n \in 0..MaxRecords}

InitStats ==
    /\ TablesInit(<<>>)
    /\ LoopInit
    /\ pc = "records"

\* lines 99-117
BinStats ==
    /\ pc = "records"
    /\ \E records \in RecordLists :
          /\ call' = records
          /\ ret' = bin_stats_of(records)
    /\ pc' = "stats"
    /\ UNCHANGED <<tables, unit, ci, seq, di, states, success, scored, results, safety>>

\* lines 119-150
FillEmpty ==
    /\ pc = "stats"
    /\ ret' = fill_loop(ret, 1, overall_p_hit(call))
    /\ pc' = "filled"
    /\ UNCHANGED <<tables, unit, ci, seq, di, states, success, scored, results, safety, call>>

NextStats == BinStats \/ FillEmpty

SpecStats == InitStats /\ [][NextStats]_vars

BinsHolding(avg) ==
    {k \in 1..Len(ret) : in_bin(avg, ret[k].low, ret[k].high)}

\* C22 as stated: the bins partition the skill axis from BIN_START upward:
\* every file average at or above BIN_START lies in exactly one bin under
\* the test low <= avg <= high (the top bin unbounded above).
\* Violated: the average 110 lies in no bin (100-109 ends at 109, the top
\* bin starts at 111), and neither does 39.5.
C22_BinsPartition ==
    pc = "stats" =>
        \A k \in 1..Len(call) :
            (~IsNone(call[k].avg) /\ RLe(Rat(MC_BIN_START, 1), call[k].avg))
                => Cardinality(BinsHolding(call[k].avg)) = 1

HadData(k) == ret[k].aimed > 0
WithData == {k \in 1..Len(ret) : HadData(k)}
Distance(j, k) == IF j < k THEN k - j ELSE j - k

\* the nearest bin that had data, the lower one on a tie in distance
NearestWithData(k) ==
    CHOOSE s \in WithData :
        \A o \in WithData :
            \/ Distance(s, k) < Distance(o, k)
            \/ Distance(s, k) = Distance(o, k) /\ s <= o

OwnRate(k) ==
    LET inside == {r \in counted(call) : in_bin(call[r].avg, ret[k].low, ret[k].high)}
    IN  Rate(Rat(SumField(call, inside, "hits"), SumField(call, inside, "aimed")))

\* C28 as stated: after the filling, a bin that had data keeps its own rate;
\* when no bin had data every bin has the overall hit rate; otherwise a bin
\* without data has the rate of the nearest bin that had data, times 1.1
\* once when its representative average is the higher one and times 0.9 once
\* when it is the lower one.
\* Violated: with one file of average 25 and 5 hits in 10, bin 40-49 gets
\* 0.5 * 1.1 * 1.1, borrowed from the already filled bin 30-39; with no data
\* at all only the first bin gets the overall rate.
C28_FilledFromNearest ==
    pc = "filled" =>
        \A k \in 1..Len(ret) :
            IF HadData(k) THEN ret[k].p_hit = OwnRate(k)
            ELSE IF WithData = {} THEN ret[k].p_hit = overall_p_hit(call)
            ELSE ret[k].p_hit =
                    RateMul(ret[NearestWithData(k)].p_hit,
                            IF RLt(ret[NearestWithData(k)].rep, ret[k].rep)
                            THEN increase_factor ELSE decrease_factor)

(***************************************************************************)
(* api.py: approach play (lines 56-460 and the endpoint, lines 686-729).   *)
(* checkout_candidates, loaded from a file at start-up, is held as the set *)
(* of scores that have a non-empty list of routes in it.  A result keeps   *)
(* the fields segment, target, approach_play and alternatives; the reason  *)
(* text is left out.                                                       *)
(***************************************************************************)
\* lines 56-67
is_finishable_score(score, out_rule) ==
    IF out_rule = "double"
    THEN score = 50 \/ (score >= 2 /\ score <= 40 /\ score % 2 = 0)
    ELSE (score >= 1 /\ score <= 20) \/ score = 25 \/ score = 50

\* lines 70-74
has_checkout_path(score, checkout_candidates) == score \in checkout_candidates

\* lines 98-100: the score after hitting the treble trebles_hit times
after_trebles(score, segment, trebles_hit) == score - 3 * segment * trebles_hit

\* lines 124-174: the values mixed in with the darts that remain
mixed_values(segment) == {20, 19, 18, 17, segment} \cup {25, 50}

\* the scores one pass of the loop of line 98 visits: the base case and,
\* with darts remaining, the mixes that do not go below zero
visits_of(score, segment, darts_available, trebles_hit) ==
    IF after_trebles(score, segment, trebles_hit) < 0 THEN {}
    ELSE {s \in {after_trebles(score, segment, trebles_hit) - v * hits :
                     v \in mixed_values(segment),
                     hits \in 0..(darts_available - trebles_hit)} : s >= 0}

visited_before(score, segment, darts_available, trebles_hit) ==
    UNION {visits_of(score, segment, darts_available, k) : k \in 0..(trebles_hit - 1)}

\* lines 77-190
evaluate_approach_segment(score, segment, out_rule, darts_available, checkout_candidates) ==
    LET visited == visited_before(score, segment, darts_available, darts_available + 1)
        finishable == {s \in visited : is_finishable_score(s, out_rule)}
        has_path == {s \in visited :
                        s >= 2 /\ has_checkout_path(s, checkout_candidates)}
        reachable_checkoutish == finishable \cup has_path
        under_171 == {s \in reachable_checkoutish : s <= 170}
        preferred_pool == IF under_171 # {} THEN under_171 ELSE reachable_checkoutish
    IN  [segment |-> segment,
         finishable_count |-> Cardinality(finishable),
         has_checkout_path_count |-> Cardinality(has_path),
         immediately_finishable |->
             \E k \in 0..darts_available :
                 /\ after_trebles(score, segment, k) = 0
                 /\ 0 \notin visited_before(score, segment, darts_available, k),
         best_remaining |->
             IF reachable_checkoutish # {} THEN Largest(preferred_pool) ELSE NoNum]

preferred_treble_segments == <<20, 19, 18, 17>>
preferred_single_segments == <<20, 19, 18, 17, 25, 50>>

t20_overrides ==
    {<<171, 1>>, <<171, 3>>, <<172, 1>>, <<172, 3>>, <<175, 1>>, <<175, 3>>,
     <<176, 1>>, <<176, 3>>, <<177, 1>>, <<177, 3>>, <<178, 1>>, <<178, 3>>,
     <<180, 1>>, <<181, 1>>, <<181, 3>>, <<184, 1>>, <<184, 3>>, <<185, 3>>,
     <<186, 3>>, <<187, 1>>, <<187, 3>>, <<190, 1>>, <<191, 1>>, <<191, 3>>,
     <<192, 3>>, <<193, 1>>, <<193, 3>>, <<194, 1>>, <<194, 3>>, <<196, 1>>,
     <<197, 1>>, <<198, 1>>, <<199, 1>>, <<199, 3>>, <<200, 1>>, <<201, 1>>,
     <<201, 3>>, <<202, 1>>, <<203, 1>>, <<204, 1>>, <<205, 1>>, <<206, 1>>,
     <<207, 1>>, <<208, 1>>, <<209, 3>>, <<210, 1>>, <<211, 1>>, <<211, 3>>,
     <<212, 3>>, <<213, 3>>, <<214, 1>>, <<215, 3>>, <<217, 1>>, <<217, 3>>,
     <<219, 3>>, <<220, 1>>, <<221, 3>>, <<222, 3>>, <<223, 3>>, <<224, 3>>,
     <<225, 3>>, <<226, 3>>, <<227, 3>>, <<228, 3>>, <<229, 3>>, <<231, 3>>,
     <<235, 3>>, <<243, 3>>, <<244, 3>>, <<246, 3>>, <<251, 3>>, <<253, 3>>,
     <<257, 3>>, <<261, 3>>, <<267, 3>>}

t19_overrides ==
    {<<173, 1>>, <<179, 1>>, <<211, 2>>, <<214, 2>>, <<219, 1>>, <<233, 3>>,
     <<243, 2>>, <<246, 2>>, <<249, 2>>, <<265, 3>>, <<271, 3>>}

t18_overrides ==
    {<<174, 1>>, <<213, 2>>, <<242, 2>>, <<245, 2>>, <<248, 2>>}

\* lines 303-310
override_target(score, darts_available) ==
    IF <<score, darts_available>> \in t20_overrides THEN Code("t", 20)
    ELSE IF <<score, darts_available>> \in t19_overrides THEN Code("t", 19)
    ELSE IF <<score, darts_available>> \in t18_overrides THEN Code("t", 18)
    ELSE <<>>

\* lines 322-328 and 348-354
default_alternatives ==
    <<[segment |-> 20, target |-> Code("t", 20), quality |-> 0],
      [segment |-> 19, target |-> Code("t", 19), quality |-> 0],
      [segment |-> 18, target |-> Code("t", 18), quality |-> 0],
      [segment |-> 17, target |-> Code("t", 17), quality |-> 0],
      [segment |-> 25, target |-> Code("s", 25), quality |-> 0]>>

\* lines 360-379
one_dart_options(score, out_rule, checkout_candidates) ==
    {[target |-> Code("s", preferred_single_segments[k]),
      segment |-> preferred_single_segments[k],
      quality |-> score - preferred_single_segments[k]] :
        k \in {j \in 1..Len(preferred_single_segments) :
                 /\ score - preferred_single_segments[j] >= 2
                 /\ \/ has_checkout_path(score - preferred_single_segments[j],
                                         checkout_candidates)
                    \/ is_finishable_score(score - preferred_single_segments[j],
                                           out_rule)}}

\* line 382: key (-quality, segment)
option_before(x, y) ==
    x.quality > y.quality \/ (x.quality = y.quality /\ x.segment < y.segment)

\* one_dart_options.sort(...), the keys being distinct
RECURSIVE sort_options(_)
sort_options(S) ==
    IF S = {} THEN <<>>
    ELSE LET first == CHOOSE x \in S : \A y \in S \ {x} : option_before(x, y)
         IN  <<first>> \o sort_options(S \ {first})

\* lines 401-417
evaluation(score, segment, out_rule, darts_available, checkout_candidates) ==
    LET analysis == evaluate_approach_segment(score, segment, out_rule,
                                              darts_available, checkout_candidates)
    IN  [segment |-> segment,
         target |-> Code("t", segment),
         quality |-> (IF analysis.immediately_finishable THEN 120 ELSE 0)
                     + analysis.finishable_count * 12
                     + analysis.has_checkout_path_count * 8
                     + (IF analysis.best_remaining # NoNum
                           /\ analysis.best_remaining <= 170 THEN 20 ELSE 0)
                     + segment]

\* line 419: key (-quality_score, -segment)
evaluation_before(x, y) ==
    x.quality > y.quality \/ (x.quality = y.quality /\ x.segment > y.segment)

\* evaluations.sort(...), the keys being distinct
RECURSIVE sort_evaluations(_)
sort_evaluations(S) ==
    IF S = {} THEN <<>>
    ELSE LET first == CHOOSE x \in S : \A y \in S \ {x} : evaluation_before(x, y)
         IN  <<first>> \o sort_evaluations(S \ {first})

\* lines 329 and 337: the upper ends of the checkout and approach ranges
CHECKOUT_MAX == 170
APPROACH_MAX == 271

\* line 311
in_approach_range(score) == CHECKOUT_MAX + 1 <= score /\ score <= APPROACH_MAX

\* line 337
power_scoring_mut(score) == score > APPROACH_MAX + 5
power_scoring(score) == score > APPROACH_MAX

\* lines 193-460
find_best_approach_segment(score, out_rule, darts_available, checkout_candidates) ==
    LET target == override_target(score, darts_available)
        options == sort_options(one_dart_options(score, out_rule, checkout_candidates))
        evaluations ==
            sort_evaluations(
                {evaluation(score, preferred_treble_segments[k], out_rule,
                            darts_available, checkout_candidates) :
                    k \in 1..Len(preferred_treble_segments)})
    IN  IF target # <<>> /\ in_approach_range(score)
        THEN [segment |-> IF Len(target) > 1 /\ IsDigitStr(Tail(target))
                          THEN IntOf(Tail(target)) ELSE 20,
              target |-> target,
              approach_play |-> TRUE,
              alternatives |-> default_alternatives]
        ELSE IF score <= CHECKOUT_MAX
        THEN [segment |-> 20, target |-> Code("t", 20), approach_play |-> FALSE,
              alternatives |-> <<>>]
        ELSE IF power_scoring(score)
        THEN [segment |-> 20, target |-> Code("t", 20), approach_play |-> FALSE,
              alternatives |-> default_alternatives]
        ELSE IF darts_available <= 1 /\ Len(options) > 0
        THEN [segment |-> options[1].segment,
              target |-> options[1].target,
              approach_play |-> TRUE,
              alternatives |-> Prefix(options, 5)]
        ELSE [segment |-> evaluations[1].segment,
              target |-> evaluations[1].target,
              approach_play |-> TRUE,
              alternatives |-> Prefix(evaluations, 5)]

\* the requests the endpoint passes on (lines 719-723): a score from 2 up,
\* one to three darts, either out rule; and the candidates file, empty or
\* with a route for every score that can be checked out
MaxScore == 280
Scores == 2..MaxScore
OutRules == {"double", "straight"}
IMPOSSIBLE_CHECKOUT_SCORES == {1, 159, 162, 163, 165, 166, 168, 169}
CandidateTables == {{}, (2..CHECKOUT_MAX) \ IMPOSSIBLE_CHECKOUT_SCORES}

InitSuggest ==
    /\ TablesInit(<<>>)
    /\ LoopInit
    /\ pc = "suggest"

\* lines 707-726
suggest_approach_segment ==
    /\ pc = "suggest"
    /\ \E score \in Scores, out_rule \in OutRules, darts_available \in 1..3,
          checkout_candidates \in CandidateTables :
          /\ call' = [score |-> score, out_rule |-> out_rule,
                      darts_available |-> darts_available,
                      checkout_candidates |-> checkout_candidates]
          /\ ret' = find_best_approach_segment(score, out_rule, darts_available,
                                               checkout_candidates)
    /\ pc' = "suggested"
    /\ UNCHANGED <<tables, unit, ci, seq, di, states, success, scored, results, safety>>

NextSuggest == suggest_approach_segment

SpecSuggest == InitSuggest /\ [][NextSuggest]_vars

\* C23 as stated: every suggestion has a segment in 1..20 and a target code
\* that names that segment.
\* Violated: for score 195 with one dart and a route for 170 in the
\* candidates the suggestion is segment 25, target 's25'.
C23_SegmentOnBoard ==
    pc = "suggested" =>
        /\ ret.segment \in 1..20
        /\ Len(ret.target) > 1
        /\ Tail(ret.target) = StrOf(ret.segment)

\* C27: approach_play is true exactly when the score is in 171..271, and
\* outside that range the result is approach_play = false with target t20.
C27_ApproachRange ==
    pc = "suggested" =>
        /\ ret.approach_play <=> (171 <= call.score /\ call.score <= 271)
        /\ ~(171 <= call.score /\ call.score <= 271) =>
              (~ret.approach_play /\ ret.target = <<"t", "2", "0">>)

\* a request in the approach range answered from each of the three paths:
\* an override, the one-dart options and the treble evaluation
C27_Witness ==
    /\ pc = "suggested"
    /\ ret.approach_play
    /\ call.score \in 171..271
    /\ call.darts_available = 1
    /\ <<call.score, 1>> \notin t20_overrides \cup t19_overrides \cup t18_overrides
    /\ ret.segment = 25

(***************************************************************************)
(* The lookup tables during the results loop.                              *)
(***************************************************************************)
lookup_tables ==
    <<bin_distributions, aim_empirical, aim_counts, slope, intercept,
      mult_double, mult_single>>

\* C24: every step of the evaluation of a unit (the start of the unit, each
\* candidate, each dart with its distribution looked up or built on the
\* fly, the safety computation and the publication) leaves the lookup
\* tables as they were, so what is published for a (bin, score) is a
\* function of the tables precomputation left and of the candidates alone.
C24_TablesReadOnly ==
    [][Loop => UNCHANGED lookup_tables]_vars

\* a dart whose distribution was built on the fly has been thrown and the
\* safety of its sequence computed
C24_Witness ==
    /\ pc = "loop"
    /\ ci > 1
    /\ di > 1
    /\ \E k \in 1..(di - 1) :
          Lower(seq[k]) \notin DOMAIN bin_distributions[bin.label]
    /\ safety = calculate_safety_score(seq, T)

\* a target code of the notation: a kind and a segment 1..20, or a bull
ValidTarget(code) ==
    \/ code \in {OBULL, IBULL}
    \/ /\ Len(code) > 1
       /\ code[1] \in {"t", "d", "o", "i"}
       /\ IsDigitStr(Tail(code))
       /\ IntOf(Tail(code)) \in 1..20

\* C25 as stated: every landing key of a distribution synthesized for a
\* valid aim is a valid target code.
\* Violated: the distribution for 'ibull' (and 'obull') has the landing
\* keys 'i25' and 'd25'.
C25_LandingsValid ==
    pc = "load" =>
        \A lb \in DOMAIN bin_distributions :
            \A aimed \in all_aims :
                Synthesized(aimed) =>
                    \A bed \in DOMAIN bin_distributions[lb][aimed] : ValidTarget(bed)

\* C26: with a fitted regression, the hit probability the fallback model
\* gives an aim is non-decreasing in the representative average of the bin
\* when the slope is positive and non-increasing when it is negative.
C26_MonotoneInRep ==
    (pc = "load" /\ ~IsNone(slope)) =>
        \A aimed \in all_aims, lo \in AllBins, hi \in AllBins :
            RLe(lo.rep, hi.rep) =>
                /\ RLt(Zero, slope) =>
                      RLe(p_hit_of(aimed, lo.rep), p_hit_of(aimed, hi.rep))
                /\ RLt(slope, Zero) =>
                      RLe(p_hit_of(aimed, hi.rep), p_hit_of(aimed, lo.rep))

\* the tables were built from a regression of negative slope, and the hit
\* probability of t19, an aim without records, falls strictly from the first
\* bin to the next
C26_Witness ==
    /\ pc = "load"
    /\ ~IsNone(slope)
    /\ RLt(slope, Zero)
    /\ Synthesized(Code("t", 19))
    /\ RLt(bin_distributions[bins[2].label][Code("t", 19)][Code("t", 19)],
           bin_distributions[bins[1].label][Code("t", 19)][Code("t", 19)])
    /\ bin_distributions[bins[1].label][Code("t", 19)][Code("t", 19)]
          = p_hit_of(Code("t", 19), bins[1].rep)

(***************************************************************************)
(* The result as a function of the length of the sequence.                 *)
(***************************************************************************)
\* C29: when the evaluation of a sequence returns, after all its darts or
\* earlier because no state was left, the value returned for a prefix of
\* the sequence is never more than that for the prefix one dart longer (the
\* success total never falls from dart to dart, and appending a dart never
\* lowers the result), and the value is that of the prefix thrown so far
\* and of the whole sequence alike: the darts not thrown add nothing.
C29_AppendingNeverLowers ==
    pc = "return" =>
        \E returned \in {[k \in 0..Len(seq) |-> success_prob(Prefix(seq, k))]} :
            /\ \A k \in 0..(Len(seq) - 1) : RLe(returned[k], returned[k + 1])
            /\ success = returned[di - 1]
            /\ success = returned[Len(seq)]

\* a sequence of three darts whose second dart raised the success and left
\* no state, so that the evaluation returned before the third
C29_Witness ==
    /\ pc = "return"
    /\ Len(seq) = 3
    /\ di = 3
    /\ DOMAIN states = {}
    /\ RLt(success_prob(Prefix(seq, 1)), success)

(***************************************************************************)
(* The safety of one-dart sequences and the published safest entry.        *)
(***************************************************************************)
OneDartEntries == {k \in 1..Len(scored) : Len(scored[k].sequence) = 1}

\* C30: every kept candidate of fewer than two darts has safety 1.0 and
\* every longer one at most 0.9; so when a one-dart candidate was kept, the
\* published safest sequence is a one-dart candidate, its published safety
\* is 1.0, and that is at least the safety of the published best.
C30_OneDartIsSafest ==
    pc = "done" =>
        /\ \A k \in 1..Len(scored) :
              /\ scored[k].safety = calculate_safety_score(scored[k].sequence, T)
              /\ IF Len(scored[k].sequence) < 2
                 THEN scored[k].safety = One
                 ELSE RLe(scored[k].safety, Rat(9, 10))
        /\ OneDartEntries # {} =>
              /\ \E k \in OneDartEntries :
                    results.safest.sequence = Join(scored[k].sequence)
              /\ results.safest.safety = One
              /\ RLe(results.best.safety, results.safest.safety)

\* a longer sequence is published as best, with a safety below 1, while a
\* one-dart candidate was kept too
C30_Witness ==
    /\ pc = "done"
    /\ OneDartEntries # {}
    /\ Len(scored[1].sequence) > 1
    /\ RLt(results.best.safety, One)
    /\ results.safest.safety = One
=============================================================================
